---- MODULE Spec2Model ----
(***************************************************************************)
(* FilEx: the multi-threaded crawl of src/file_scanner.py feeding the      *)
(* batch writer of src/database_manager.py, sequenced by run_indexer of    *)
(* src/main.py.  One action per atomic step of a thread; the bare          *)
(* "x += 1" on shared attributes is a load followed by a store.            *)
(***************************************************************************)
EXTENDS Integers, Sequences, FiniteSets, TLC

\* ------------------------------------------------------------------ bounds
MaxWorkers == 2
MaxRuns == 2
\* batch_size is 1000 in the source; the model keeps the code, with a small threshold
batch_size == 2

\* ------------------------------------------------------- the directory tree
\* r/ { a/ { f3, b/ { l -> r } }, f1, f2 }   (l is a symbolic link)
Dirs == {"r", "a", "b"}
Files == {"f1", "f2", "f3"}
Symlinks == {"l"}
None == "None"

\* os.scandir(d): the entries of a directory, in the order the OS yields them
Entries(d) ==
    CASE d = "r" -> <<"a", "f1", "f2">>
      [] d = "a" -> <<"f3", "b">>
      [] d = "b" -> <<"l">>

\* root directory lists a user can enter (duplicates and nested roots included)
RootLists == {<<"r">>, <<"a">>, <<"a", "a">>, <<"a", "b">>}
\* directories whose os.scandir() raises, files whose os.stat() raises
DeniedSets == {{}, {"a"}, {"b"}}
UnreadableSets == {{}, {"f1"}}

Workers == 1..MaxWorkers

VARIABLES
    \* the inputs of the run
    root_paths, num_threads, denied, unreadable, run,
    \* FileScanner
    path_queue, unfinished_tasks,
    total_files_scanned, total_directories_scanned, active_scan_tasks,
    \* the scanner workers (_scan_directory_task)
    wpc, current_dir, idx, tmp,
    \* DatabaseManager
    file_data_queue, is_indexing_finished, processed_count,
    \* the writer thread (_database_writer_loop)
    wrpc, batch_data,
    \* run_indexer / start_scanning
    mpc, mi,
    \* the files table
    rows,
    \* history
    dequeued, pushed, popped, committed, flag_sets, failed_records, rows_before,
    prior_clean, reports

config == <<root_paths, num_threads, denied, unreadable>>
scanner == <<path_queue, unfinished_tasks, total_files_scanned,
             total_directories_scanned, active_scan_tasks>>
workers == <<wpc, current_dir, idx, tmp>>
dbm == <<file_data_queue, is_indexing_finished, processed_count>>
writer == <<wrpc, batch_data>>
history == <<dequeued, pushed, popped, committed, flag_sets, failed_records,
             rows_before, prior_clean, reports>>
vars == <<config, run, scanner, workers, dbm, writer, mpc, mi, rows, history>>

\* ------------------------------------------------------------ pure helpers
IsDir(e) == e \in Dirs
IsFile(e) == e \in Files

\* get_file_metadata: the record of a file as stat'ed during run n
get_file_metadata(f, n) == [filepath |-> f, meta |-> n]

\* Upsert as a plain INSERT, no unique key on the filepath hash
PlainInsert(table, rec) == table \cup {rec}

\* INSERT ... ON DUPLICATE KEY UPDATE on the UNIQUE filepath_hash
Upsert(table, rec) ==
    {row \in table : row.filepath # rec.filepath} \cup {rec}

RECURSIVE UpsertAll(_, _)
UpsertAll(table, batch) ==
    IF batch = <<>> THEN table
    ELSE UpsertAll(Upsert(table, Head(batch)), Tail(batch))

\* ------------------------------------------------------------------- Init
\* the objects built by run_indexer for run n over the table as it stands
Fresh(n, table) ==
    /\ run = n
    /\ path_queue = <<>>
    /\ unfinished_tasks = 0
    /\ total_files_scanned = 0
    /\ total_directories_scanned = 0
    /\ active_scan_tasks = 0
    /\ wpc = [w \in Workers |-> "idle"]
    /\ current_dir = [w \in Workers |-> None]
    /\ idx = [w \in Workers |-> 0]
    /\ tmp = [w \in Workers |-> 0]
    /\ file_data_queue = <<>>
    /\ is_indexing_finished = FALSE
    /\ processed_count = 0
    /\ wrpc = "idle"
    /\ batch_data = <<>>
    /\ mpc = "start_writer"
    /\ mi = 1
    /\ rows = table
    /\ dequeued = [d \in Dirs |-> 0]
    /\ pushed = [f \in Files |-> 0]
    /\ popped = [f \in Files |-> 0]
    /\ committed = [f \in Files |-> 0]
    /\ flag_sets = 0
    /\ failed_records = 0
    /\ rows_before = table
    /\ prior_clean = TRUE
    /\ reports = <<>>

Init ==
    /\ root_paths \in RootLists
    /\ num_threads \in 1..MaxWorkers
    /\ denied \in DeniedSets
    /\ unreadable \in UnreadableSets
    /\ Fresh(1, {})

\* ------------------------------------------------ run_indexer, start_scanning
\* main.py:76  db_manager.start_writer_thread()
StartWriterThread ==
    /\ mpc = "start_writer"
    /\ wrpc' = "connect"
    /\ mpc' = "put_roots"
    /\ UNCHANGED <<config, run, scanner, workers, dbm, batch_data, mi, rows, history>>

\* PutRoot that appends the root without counting it as an unfinished task
PutRootUncounted ==
    /\ mpc = "put_roots"
    /\ path_queue' = Append(path_queue, root_paths[mi])
    /\ total_directories_scanned' = total_directories_scanned + 1
    /\ active_scan_tasks' = active_scan_tasks + 1
    /\ IF mi = Len(root_paths)
       THEN mpc' = "submit" /\ mi' = 1
       ELSE mpc' = mpc /\ mi' = mi + 1
    /\ UNCHANGED <<config, run, unfinished_tasks, total_files_scanned, workers, dbm,
                   writer, rows, history>>

\* file_scanner.py:27-30  one iteration of the root loop (no worker runs yet)
PutRoot ==
    /\ mpc = "put_roots"
    /\ path_queue' = Append(path_queue, root_paths[mi])
    /\ unfinished_tasks' = unfinished_tasks + 1
    /\ total_directories_scanned' = total_directories_scanned + 1
    /\ active_scan_tasks' = active_scan_tasks + 1
    /\ IF mi = Len(root_paths)
       THEN mpc' = "submit" /\ mi' = 1
       ELSE mpc' = mpc /\ mi' = mi + 1
    /\ UNCHANGED <<config, run, total_files_scanned, workers, dbm, writer, rows, history>>

\* file_scanner.py:37-38  executor.submit starts one worker thread
Submit ==
    /\ mpc = "submit"
    /\ wpc' = [wpc EXCEPT ![mi] = "get"]
    /\ IF mi = num_threads
       THEN mpc' = "join" /\ mi' = 1
       ELSE mpc' = mpc /\ mi' = mi + 1
    /\ UNCHANGED <<config, run, scanner, current_dir, idx, tmp, dbm, writer, rows, history>>

\* Join that waits for an empty queue instead of the task count
JoinOnEmptyQueue ==
    /\ mpc = "join"
    /\ path_queue = <<>>
    /\ mpc' = "sentinels"
    /\ UNCHANGED <<config, run, scanner, workers, dbm, writer, mi, rows, history>>

\* file_scanner.py:42  path_queue.join() returns once unfinished_tasks is 0
Join ==
    /\ mpc = "join"
    /\ unfinished_tasks = 0
    /\ mpc' = "sentinels"
    /\ UNCHANGED <<config, run, scanner, workers, dbm, writer, mi, rows, history>>

\* PutSentinel that puts a single sentinel for the whole pool
PutSingleSentinel ==
    /\ mpc = "sentinels"
    /\ path_queue' = Append(path_queue, None)
    /\ unfinished_tasks' = unfinished_tasks + 1
    /\ mpc' = "shutdown"
    /\ mi' = 1
    /\ UNCHANGED <<config, run, total_files_scanned, total_directories_scanned,
                   active_scan_tasks, workers, dbm, writer, rows, history>>

\* file_scanner.py:46-47  one stop-sentinel per worker
PutSentinel ==
    /\ mpc = "sentinels"
    /\ path_queue' = Append(path_queue, None)
    /\ unfinished_tasks' = unfinished_tasks + 1
    /\ IF mi = num_threads
       THEN mpc' = "shutdown" /\ mi' = 1
       ELSE mpc' = mpc /\ mi' = mi + 1
    /\ UNCHANGED <<config, run, total_files_scanned, total_directories_scanned,
                   active_scan_tasks, workers, dbm, writer, rows, history>>

\* Shutdown that does not wait for the worker threads
ShutdownNoWait ==
    /\ mpc = "shutdown"
    /\ mpc' = "set_finished"
    /\ UNCHANGED <<config, run, scanner, workers, dbm, writer, mi, rows, history>>

\* file_scanner.py:50  executor.shutdown(wait=True) joins every worker thread
Shutdown ==
    /\ mpc = "shutdown"
    /\ \A w \in 1..num_threads : wpc[w] = "exited"
    /\ mpc' = "set_finished"
    /\ UNCHANGED <<config, run, scanner, workers, dbm, writer, mi, rows, history>>

\* file_scanner.py:52, database_manager.py:105-107
set_indexing_finished ==
    /\ mpc = "set_finished"
    /\ is_indexing_finished' = TRUE
    /\ flag_sets' = flag_sets + 1
    /\ mpc' = "scan_completed"
    /\ UNCHANGED <<config, run, scanner, workers, file_data_queue, processed_count,
                   writer, mi, rows, dequeued, pushed, popped, committed, failed_records,
                   rows_before, prior_clean,
                   reports>>

\* file_scanner.py:53  start_scanning prints the file and directory totals
\* and returns
ScanCompleted ==
    /\ mpc = "scan_completed"
    /\ reports' = Append(reports, "start_scanning")
    /\ mpc' = "wait_writer"
    /\ UNCHANGED <<config, run, scanner, workers, dbm, writer, mi, rows, dequeued,
                   pushed, popped, committed, flag_sets, failed_records, rows_before,
                   prior_clean>>

\* database_manager.py:122-177  the writer thread has ended: after its last
\* line, by the return of line 130, or through the handler of line 173
WriterExited == wrpc \in {"exited", "no_connection", "error"}

\* wait_for_writer_thread that returns only after a normal end of the writer
WaitForNormalExit ==
    /\ mpc = "wait_writer"
    /\ wrpc = "exited"
    /\ mpc' = "report"
    /\ UNCHANGED <<config, run, scanner, workers, dbm, writer, mi, rows, history>>

\* main.py:91, database_manager.py:115-118  writer_thread.join() returns once
\* the thread has ended, however it ended
wait_for_writer_thread ==
    /\ mpc = "wait_writer"
    /\ WriterExited
    /\ mpc' = "report"
    /\ UNCHANGED <<config, run, scanner, workers, dbm, writer, mi, rows, history>>

\* main.py:93-99  the duration and the file count are printed, run_indexer
\* returns
Report ==
    /\ mpc = "report"
    /\ reports' = Append(reports, "run_indexer")
    /\ mpc' = "done"
    /\ UNCHANGED <<config, run, scanner, workers, dbm, writer, mi, rows, dequeued,
                   pushed, popped, committed, flag_sets, failed_records, rows_before,
                   prior_clean>>

\* main.py:140-150  the menu loop calls run_indexer again: new objects, same table
RunAgain ==
    /\ mpc = "done"
    /\ run < MaxRuns
    /\ run' = run + 1
    /\ path_queue' = <<>>
    /\ unfinished_tasks' = 0
    /\ total_files_scanned' = 0
    /\ total_directories_scanned' = 0
    /\ active_scan_tasks' = 0
    /\ wpc' = [w \in Workers |-> "idle"]
    /\ current_dir' = [w \in Workers |-> None]
    /\ idx' = [w \in Workers |-> 0]
    /\ tmp' = [w \in Workers |-> 0]
    /\ file_data_queue' = <<>>
    /\ is_indexing_finished' = FALSE
    /\ processed_count' = 0
    /\ wrpc' = "idle"
    /\ batch_data' = <<>>
    /\ mpc' = "start_writer"
    /\ mi' = 1
    /\ dequeued' = [d \in Dirs |-> 0]
    /\ pushed' = [f \in Files |-> 0]
    /\ popped' = [f \in Files |-> 0]
    /\ committed' = [f \in Files |-> 0]
    /\ flag_sets' = 0
    /\ failed_records' = 0
    /\ rows_before' = rows
    /\ prior_clean' = (prior_clean /\ wrpc = "exited" /\ failed_records = 0)
    /\ reports' = <<>>
    /\ UNCHANGED <<config, rows>>

\* ------------------------------------------------------ _scan_directory_task
\* GetDir with task_done() called as soon as the directory is taken
GetDirTaskDoneFirst(w) ==
    /\ wpc[w] = "get"
    /\ path_queue # <<>>
    /\ Head(path_queue) # None
    /\ path_queue' = Tail(path_queue)
    /\ unfinished_tasks' = unfinished_tasks - 1
    /\ current_dir' = [current_dir EXCEPT ![w] = Head(path_queue)]
    /\ dequeued' = [dequeued EXCEPT ![Head(path_queue)] = @ + 1]
    /\ wpc' = [wpc EXCEPT ![w] = "scandir"]
    /\ UNCHANGED <<config, run, total_files_scanned,
                   total_directories_scanned, active_scan_tasks, idx, tmp, dbm, writer,
                   mpc, mi, rows, pushed, popped, committed, flag_sets, failed_records,
                   rows_before, prior_clean,
                   reports>>

\* file_scanner.py:61-63  get() hands the worker a directory
GetDir(w) ==
    /\ wpc[w] = "get"
    /\ path_queue # <<>>
    /\ Head(path_queue) # None
    /\ path_queue' = Tail(path_queue)
    /\ current_dir' = [current_dir EXCEPT ![w] = Head(path_queue)]
    /\ dequeued' = [dequeued EXCEPT ![Head(path_queue)] = @ + 1]
    /\ wpc' = [wpc EXCEPT ![w] = "scandir"]
    /\ UNCHANGED <<config, run, unfinished_tasks, total_files_scanned,
                   total_directories_scanned, active_scan_tasks, idx, tmp, dbm, writer,
                   mpc, mi, rows, pushed, popped, committed, flag_sets, failed_records,
                   rows_before, prior_clean,
                   reports>>

\* file_scanner.py:61-63  get() hands the worker a stop-sentinel
GetSentinel(w) ==
    /\ wpc[w] = "get"
    /\ path_queue # <<>>
    /\ Head(path_queue) = None
    /\ path_queue' = Tail(path_queue)
    /\ wpc' = [wpc EXCEPT ![w] = "sentinel"]
    /\ UNCHANGED <<config, run, unfinished_tasks, total_files_scanned,
                   total_directories_scanned, active_scan_tasks, current_dir, idx, tmp,
                   dbm, writer, mpc, mi, rows, history>>

\* SentinelDone without the break: the worker goes back to get()
SentinelDoneNoBreak(w) ==
    /\ wpc[w] = "sentinel"
    /\ unfinished_tasks' = unfinished_tasks - 1
    /\ wpc' = [wpc EXCEPT ![w] = "get"]
    /\ UNCHANGED <<config, run, path_queue, total_files_scanned,
                   total_directories_scanned, active_scan_tasks, current_dir, idx, tmp,
                   dbm, writer, mpc, mi, rows, history>>

\* file_scanner.py:64-65  task_done() for the sentinel, then break
SentinelDone(w) ==
    /\ wpc[w] = "sentinel"
    /\ unfinished_tasks' = unfinished_tasks - 1
    /\ wpc' = [wpc EXCEPT ![w] = "exited"]
    /\ UNCHANGED <<config, run, path_queue, total_files_scanned,
                   total_directories_scanned, active_scan_tasks, current_dir, idx, tmp,
                   dbm, writer, mpc, mi, rows, history>>

\* file_scanner.py:70  os.scandir(current_dir) opens the directory
ScanDir(w) ==
    /\ wpc[w] = "scandir"
    /\ current_dir[w] \notin denied
    /\ idx' = [idx EXCEPT ![w] = 1]
    /\ wpc' = [wpc EXCEPT ![w] = "entry"]
    /\ UNCHANGED <<config, run, scanner, current_dir, tmp, dbm, writer, mpc, mi, rows,
                   history>>

\* ScanDirRaises with the exception leaving the worker's loop: no task_done()
ScanDirRaisesEndsWorker(w) ==
    /\ wpc[w] = "scandir"
    /\ current_dir[w] \in denied
    /\ wpc' = [wpc EXCEPT ![w] = "exited"]
    /\ UNCHANGED <<config, run, scanner, current_dir, idx, tmp, dbm, writer, mpc, mi,
                   rows, history>>

\* file_scanner.py:70, 83-87  os.scandir raises PermissionError or another
\* exception: both handlers fall through to the finally clause
ScanDirRaises(w) ==
    /\ wpc[w] = "scandir"
    /\ current_dir[w] \in denied
    /\ wpc' = [wpc EXCEPT ![w] = "finally"]
    /\ UNCHANGED <<config, run, scanner, current_dir, idx, tmp, dbm, writer, mpc, mi,
                   rows, history>>

\* the entry the for loop of file_scanner.py:70 is at
AtEntry(w) ==
    /\ wpc[w] = "entry"
    /\ idx[w] <= Len(Entries(current_dir[w]))
Entry(w) == Entries(current_dir[w])[idx[w]]

\* file_scanner.py:71-72  a subdirectory is put on path_queue
EntryDir(w) ==
    /\ AtEntry(w)
    /\ IsDir(Entry(w))
    /\ path_queue' = Append(path_queue, Entry(w))
    /\ unfinished_tasks' = unfinished_tasks + 1
    /\ wpc' = [wpc EXCEPT ![w] = "ast_load"]
    /\ UNCHANGED <<config, run, total_files_scanned, total_directories_scanned,
                   active_scan_tasks, current_dir, idx, tmp, dbm, writer, mpc, mi, rows,
                   history>>

\* file_scanner.py:75  self.active_scan_tasks += 1 (load)
ActiveLoad(w) ==
    /\ wpc[w] = "ast_load"
    /\ tmp' = [tmp EXCEPT ![w] = active_scan_tasks]
    /\ wpc' = [wpc EXCEPT ![w] = "ast_store"]
    /\ UNCHANGED <<config, run, scanner, current_dir, idx, dbm, writer, mpc, mi, rows,
                   history>>

\* file_scanner.py:75  self.active_scan_tasks += 1 (store)
ActiveStore(w) ==
    /\ wpc[w] = "ast_store"
    /\ active_scan_tasks' = tmp[w] + 1
    /\ tmp' = [tmp EXCEPT ![w] = 0]
    /\ wpc' = [wpc EXCEPT ![w] = "tds_load"]
    /\ UNCHANGED <<config, run, path_queue, unfinished_tasks, total_files_scanned,
                   total_directories_scanned, current_dir, idx, dbm, writer, mpc, mi,
                   rows, history>>

\* file_scanner.py:76  self.total_directories_scanned += 1 (load)
DirsLoad(w) ==
    /\ wpc[w] = "tds_load"
    /\ tmp' = [tmp EXCEPT ![w] = total_directories_scanned]
    /\ wpc' = [wpc EXCEPT ![w] = "tds_store"]
    /\ UNCHANGED <<config, run, scanner, current_dir, idx, dbm, writer, mpc, mi, rows,
                   history>>

\* file_scanner.py:76  self.total_directories_scanned += 1 (store), next entry
DirsStore(w) ==
    /\ wpc[w] = "tds_store"
    /\ total_directories_scanned' = tmp[w] + 1
    /\ tmp' = [tmp EXCEPT ![w] = 0]
    /\ idx' = [idx EXCEPT ![w] = @ + 1]
    /\ wpc' = [wpc EXCEPT ![w] = "entry"]
    /\ UNCHANGED <<config, run, path_queue, unfinished_tasks, total_files_scanned,
                   active_scan_tasks, current_dir, dbm, writer, mpc, mi, rows, history>>

\* EntryFile whose add_file_to_queue drops the record when one is already queued
EntryFileDropsWhenBusy(w) ==
    /\ AtEntry(w)
    /\ IsFile(Entry(w))
    /\ Entry(w) \notin unreadable
    /\ file_data_queue' = IF file_data_queue = <<>>
                          THEN Append(file_data_queue, get_file_metadata(Entry(w), run))
                          ELSE file_data_queue
    /\ pushed' = [pushed EXCEPT ![Entry(w)] = @ + 1]
    /\ wpc' = [wpc EXCEPT ![w] = "tfs_load"]
    /\ UNCHANGED <<config, run, scanner, current_dir, idx, tmp, is_indexing_finished,
                   processed_count, writer, mpc, mi, rows, dequeued, popped,
                   committed, flag_sets, failed_records, rows_before, prior_clean,
                   reports>>

\* file_scanner.py:77-80, database_manager.py:101-103  a regular file whose
\* metadata is read: the record is appended to file_data_queue
EntryFile(w) ==
    /\ AtEntry(w)
    /\ IsFile(Entry(w))
    /\ Entry(w) \notin unreadable
    /\ file_data_queue' = Append(file_data_queue, get_file_metadata(Entry(w), run))
    /\ pushed' = [pushed EXCEPT ![Entry(w)] = @ + 1]
    /\ wpc' = [wpc EXCEPT ![w] = "tfs_load"]
    /\ UNCHANGED <<config, run, scanner, current_dir, idx, tmp, is_indexing_finished,
                   processed_count, writer, mpc, mi, rows, dequeued, popped,
                   committed,
                   flag_sets, failed_records, rows_before, prior_clean,
                   reports>>

\* file_scanner.py:77-79, utils.py:30-38  get_file_metadata returns None
EntryFileUnreadable(w) ==
    /\ AtEntry(w)
    /\ IsFile(Entry(w))
    /\ Entry(w) \in unreadable
    /\ idx' = [idx EXCEPT ![w] = @ + 1]
    /\ UNCHANGED <<config, run, scanner, wpc, current_dir, tmp, dbm, writer, mpc, mi,
                   rows, history>>

\* EntryOther with is_dir() following the symbolic link to its target "r"
EntryOtherFollowsSymlink(w) ==
    /\ AtEntry(w)
    /\ ~IsDir(Entry(w))
    /\ ~IsFile(Entry(w))
    /\ path_queue' = Append(path_queue, "r")
    /\ unfinished_tasks' = unfinished_tasks + 1
    /\ wpc' = [wpc EXCEPT ![w] = "ast_load"]
    /\ UNCHANGED <<config, run, total_files_scanned, total_directories_scanned,
                   active_scan_tasks, current_dir, idx, tmp, dbm, writer, mpc, mi, rows,
                   history>>

\* file_scanner.py:71, 77  neither a directory nor a regular file (a symlink)
EntryOther(w) ==
    /\ AtEntry(w)
    /\ ~IsDir(Entry(w))
    /\ ~IsFile(Entry(w))
    /\ idx' = [idx EXCEPT ![w] = @ + 1]
    /\ UNCHANGED <<config, run, scanner, wpc, current_dir, tmp, dbm, writer, mpc, mi,
                   rows, history>>

\* file_scanner.py:81  self.total_files_scanned += 1 (load)
FilesLoad(w) ==
    /\ wpc[w] = "tfs_load"
    /\ tmp' = [tmp EXCEPT ![w] = total_files_scanned]
    /\ wpc' = [wpc EXCEPT ![w] = "tfs_store"]
    /\ UNCHANGED <<config, run, scanner, current_dir, idx, dbm, writer, mpc, mi, rows,
                   history>>

\* file_scanner.py:81  self.total_files_scanned += 1 (store), next entry
FilesStore(w) ==
    /\ wpc[w] = "tfs_store"
    /\ total_files_scanned' = tmp[w] + 1
    /\ tmp' = [tmp EXCEPT ![w] = 0]
    /\ idx' = [idx EXCEPT ![w] = @ + 1]
    /\ wpc' = [wpc EXCEPT ![w] = "entry"]
    /\ UNCHANGED <<config, run, path_queue, unfinished_tasks, total_directories_scanned,
                   active_scan_tasks, current_dir, dbm, writer, mpc, mi, rows, history>>

\* EndOfListing that calls task_done() at the end of the try body as well
EndOfListingTaskDone(w) ==
    /\ wpc[w] = "entry"
    /\ idx[w] > Len(Entries(current_dir[w]))
    /\ unfinished_tasks' = unfinished_tasks - 1
    /\ wpc' = [wpc EXCEPT ![w] = "finally"]
    /\ UNCHANGED <<config, run, path_queue, total_files_scanned,
                   total_directories_scanned, active_scan_tasks, current_dir, idx, tmp,
                   dbm, writer, mpc, mi, rows, history>>

\* file_scanner.py:70  the listing is exhausted
EndOfListing(w) ==
    /\ wpc[w] = "entry"
    /\ idx[w] > Len(Entries(current_dir[w]))
    /\ wpc' = [wpc EXCEPT ![w] = "finally"]
    /\ UNCHANGED <<config, run, scanner, current_dir, idx, tmp, dbm, writer, mpc, mi,
                   rows, history>>

\* TaskDone placed at the end of the try body: skipped when os.scandir raised
TaskDoneUnlessRaised(w) ==
    /\ wpc[w] = "finally"
    /\ unfinished_tasks' = IF current_dir[w] \in denied
                           THEN unfinished_tasks
                           ELSE unfinished_tasks - 1
    /\ wpc' = [wpc EXCEPT ![w] = "dec_load"]
    /\ UNCHANGED <<config, run, path_queue, total_files_scanned,
                   total_directories_scanned, active_scan_tasks, current_dir, idx, tmp,
                   dbm, writer, mpc, mi, rows, history>>

\* file_scanner.py:88-89  finally: path_queue.task_done()
TaskDone(w) ==
    /\ wpc[w] = "finally"
    /\ unfinished_tasks' = unfinished_tasks - 1
    /\ wpc' = [wpc EXCEPT ![w] = "dec_load"]
    /\ UNCHANGED <<config, run, path_queue, total_files_scanned,
                   total_directories_scanned, active_scan_tasks, current_dir, idx, tmp,
                   dbm, writer, mpc, mi, rows, history>>

\* file_scanner.py:91  self.active_scan_tasks -= 1 (load)
ActiveDecLoad(w) ==
    /\ wpc[w] = "dec_load"
    /\ tmp' = [tmp EXCEPT ![w] = active_scan_tasks]
    /\ wpc' = [wpc EXCEPT ![w] = "dec_store"]
    /\ UNCHANGED <<config, run, scanner, current_dir, idx, dbm, writer, mpc, mi, rows,
                   history>>

\* file_scanner.py:91, 60-61  self.active_scan_tasks -= 1 (store), back to get()
ActiveDecStore(w) ==
    /\ wpc[w] = "dec_store"
    /\ active_scan_tasks' = tmp[w] - 1
    /\ tmp' = [tmp EXCEPT ![w] = 0]
    /\ current_dir' = [current_dir EXCEPT ![w] = None]
    /\ idx' = [idx EXCEPT ![w] = 0]
    /\ wpc' = [wpc EXCEPT ![w] = "get"]
    /\ UNCHANGED <<config, run, path_queue, unfinished_tasks, total_files_scanned,
                   total_directories_scanned, dbm, writer, mpc, mi, rows, history>>

\* ---------------------------------------------------- _database_writer_loop
\* database_manager.py:127-135  the writer obtains its own connection
WriterConnect ==
    /\ wrpc = "connect"
    /\ wrpc' = "loop"
    /\ UNCHANGED <<config, run, scanner, workers, dbm, batch_data, mpc, mi, rows,
                   history>>

\* database_manager.py:127-130  connect() returns None: the thread returns
WriterConnectFails ==
    /\ wrpc = "connect"
    /\ wrpc' = "no_connection"
    /\ UNCHANGED <<config, run, scanner, workers, dbm, batch_data, mpc, mi, rows,
                   history>>

\* WriterPop that reads the first record without removing it from the queue
WriterPeek ==
    /\ wrpc = "loop"
    /\ file_data_queue # <<>>
    /\ batch_data' = Append(batch_data, Head(file_data_queue))
    /\ popped' = [popped EXCEPT ![Head(file_data_queue).filepath] = @ + 1]
    /\ wrpc' = IF Len(batch_data) + 1 >= batch_size THEN "execute" ELSE "loop"
    /\ UNCHANGED <<config, run, scanner, workers, dbm, mpc, mi, rows, dequeued, pushed,
                   committed, flag_sets, failed_records, rows_before, prior_clean,
                   reports>>

\* database_manager.py:152-155  popleft() yields a record, appended to the batch
WriterPop ==
    /\ wrpc = "loop"
    /\ file_data_queue # <<>>
    /\ file_data_queue' = Tail(file_data_queue)
    /\ batch_data' = Append(batch_data, Head(file_data_queue))
    /\ popped' = [popped EXCEPT ![Head(file_data_queue).filepath] = @ + 1]
    /\ wrpc' = IF Len(batch_data) + 1 >= batch_size THEN "execute" ELSE "loop"
    /\ UNCHANGED <<config, run, scanner, workers, is_indexing_finished,
                   processed_count, mpc, mi, rows, dequeued, pushed, committed,
                   flag_sets, failed_records, rows_before, prior_clean,
                   reports>>

\* the records of a batch that belong to file f
InBatch(batch, f) == Cardinality({i \in 1..Len(batch) : batch[i].filepath = f})

\* database_manager.py:180-197  _execute_batch: executemany and commit, or an
\* Error and rollback; rollback itself may raise (the connection is gone)
BatchOutcomes == {"commit", "rollback", "rollback_raises"}

\* _execute_batch that counts every attempted batch, committed or not
_execute_batch_CountsAttempts(outcome) ==
    /\ rows' = IF outcome = "commit" THEN UpsertAll(rows, batch_data) ELSE rows
    /\ processed_count' = processed_count + Len(batch_data)
    /\ committed' = IF outcome = "commit"
                    THEN [f \in Files |-> committed[f] + InBatch(batch_data, f)]
                    ELSE committed
    /\ failed_records' = IF outcome = "commit"
                         THEN failed_records
                         ELSE failed_records + Len(batch_data)

\* database_manager.py:180-197  executemany, commit and the count of line 192,
\* or an Error, the log line and rollback()
_execute_batch(outcome) ==
    /\ rows' = IF outcome = "commit" THEN UpsertAll(rows, batch_data) ELSE rows
    /\ processed_count' = IF outcome = "commit"
                          THEN processed_count + Len(batch_data)
                          ELSE processed_count
    /\ committed' = IF outcome = "commit"
                    THEN [f \in Files |-> committed[f] + InBatch(batch_data, f)]
                    ELSE committed
    /\ failed_records' = IF outcome = "commit"
                         THEN failed_records
                         ELSE failed_records + Len(batch_data)

\* WriterExecute that keeps a failed batch in memory for the next attempt
WriterExecuteKeepsFailedBatch ==
    /\ wrpc = "execute"
    /\ \E outcome \in BatchOutcomes :
        /\ _execute_batch(outcome)
        /\ IF outcome = "rollback_raises"
           THEN wrpc' = "error" /\ batch_data' = batch_data
           ELSE /\ wrpc' = "loop"
                /\ batch_data' = IF outcome = "commit" THEN <<>> ELSE batch_data
    /\ UNCHANGED <<config, run, scanner, workers, file_data_queue,
                   is_indexing_finished, mpc, mi, dequeued, pushed, popped, flag_sets,
                   rows_before, prior_clean,
                   reports>>

\* database_manager.py:155-157  a full batch is executed and cleared; an Error
\* out of rollback() leaves the loop through the handler of line 173
WriterExecute ==
    /\ wrpc = "execute"
    /\ \E outcome \in BatchOutcomes :
        /\ _execute_batch(outcome)
        /\ IF outcome = "rollback_raises"
           THEN wrpc' = "error" /\ batch_data' = batch_data
           ELSE wrpc' = "loop" /\ batch_data' = <<>>
    /\ UNCHANGED <<config, run, scanner, workers, file_data_queue,
                   is_indexing_finished, mpc, mi, dequeued, pushed, popped, flag_sets,
                   rows_before, prior_clean,
                   reports>>

\* database_manager.py:152, 158  popleft() raises IndexError
WriterEmpty ==
    /\ wrpc = "loop"
    /\ file_data_queue = <<>>
    /\ wrpc' = "empty"
    /\ UNCHANGED <<config, run, scanner, workers, dbm, batch_data, mpc, mi, rows,
                   history>>

\* WriterCheck that breaks on an empty queue whatever the finished flag says
WriterCheckIgnoresFlag ==
    /\ wrpc = "empty"
    /\ wrpc' = IF file_data_queue = <<>> THEN "flush" ELSE "loop"
    /\ UNCHANGED <<config, run, scanner, workers, dbm, batch_data, mpc, mi, rows,
                   history>>

\* database_manager.py:161-163  finished and still empty: break; else sleep
WriterCheck ==
    /\ wrpc = "empty"
    /\ wrpc' = IF is_indexing_finished /\ file_data_queue = <<>> THEN "flush" ELSE "loop"
    /\ UNCHANGED <<config, run, scanner, workers, dbm, batch_data, mpc, mi, rows,
                   history>>

\* WriterFlush without the final _execute_batch of the partial batch
WriterFlushDropsBatch ==
    /\ wrpc = "flush"
    /\ wrpc' = "exited"
    /\ UNCHANGED <<config, run, scanner, workers, dbm, batch_data, mpc, mi, rows,
                   history>>

\* database_manager.py:166-171  the remaining partial batch, then the thread ends
WriterFlush ==
    /\ wrpc = "flush"
    /\ IF batch_data # <<>>
       THEN \E outcome \in BatchOutcomes :
               /\ _execute_batch(outcome)
               /\ wrpc' = IF outcome = "rollback_raises" THEN "error" ELSE "exited"
       ELSE /\ wrpc' = "exited"
            /\ UNCHANGED <<rows, processed_count, committed, failed_records>>
    /\ UNCHANGED <<config, run, scanner, workers, file_data_queue,
                   is_indexing_finished, batch_data, mpc, mi, dequeued, pushed, popped,
                   flag_sets, rows_before, prior_clean,
                   reports>>

\* ------------------------------------------------------------ specification
Coordinator ==
    \/ StartWriterThread
    \/ PutRoot
    \/ Submit
    \/ Join
    \/ PutSentinel
    \/ Shutdown
    \/ set_indexing_finished
    \/ ScanCompleted
    \/ wait_for_writer_thread
    \/ Report

_scan_directory_task(w) ==
    \/ GetDir(w)
    \/ GetSentinel(w)
    \/ SentinelDone(w)
    \/ ScanDir(w)
    \/ ScanDirRaises(w)
    \/ EntryDir(w)
    \/ ActiveLoad(w)
    \/ ActiveStore(w)
    \/ DirsLoad(w)
    \/ DirsStore(w)
    \/ EntryFile(w)
    \/ EntryFileUnreadable(w)
    \/ EntryOther(w)
    \/ FilesLoad(w)
    \/ FilesStore(w)
    \/ EndOfListing(w)
    \/ TaskDone(w)
    \/ ActiveDecLoad(w)
    \/ ActiveDecStore(w)

_database_writer_loop ==
    \/ WriterConnect
    \/ WriterConnectFails
    \/ WriterPop
    \/ WriterExecute
    \/ WriterEmpty
    \/ WriterCheck
    \/ WriterFlush

Next ==
    \/ Coordinator
    \/ \E w \in Workers : _scan_directory_task(w)
    \/ _database_writer_loop

Spec == Init /\ [][Next]_vars

\* the crawl under fair scheduling of the main thread, the workers and the writer
FairInit == Init /\ unreadable = {"f1"}

FairSpec ==
    /\ FairInit
    /\ [][Next]_vars
    /\ WF_vars(Coordinator)
    /\ \A w \in Workers : WF_vars(_scan_directory_task(w))
    /\ WF_vars(_database_writer_loop)

\* run_indexer called up to MaxRuns times over the same tree, one scanner worker
RunsInit == Init /\ num_threads = 1

NextRuns ==
    \/ Next
    \/ RunAgain

SpecRuns == RunsInit /\ [][NextRuns]_vars

\* ================================================================== claims
\* some directory task is still on path_queue
DirQueued == \E i \in 1..Len(path_queue) : path_queue[i] # None
SentinelQueued == \E i \in 1..Len(path_queue) : path_queue[i] = None
\* worker w has dequeued a directory and not yet called task_done() for it
HoldsDir(w) ==
    wpc[w] \in {"scandir", "entry", "ast_load", "ast_store", "tds_load", "tds_store",
                "tfs_load", "tfs_store", "finally"}
JoinReturned == mpc \notin {"start_writer", "put_roots", "submit", "join"}
StartScanningReturned == mpc \in {"wait_writer", "report", "done"}

\* C1: the unfinished-task count of path_queue is positive whenever a
\* directory task is queued or a worker is still processing a directory it
\* dequeued (every put of a subdirectory precedes the parent's task_done).
C1_PendingPositive ==
    (DirQueued \/ \E w \in Workers : HoldsDir(w)) => unfinished_tasks > 0

\* C1 witness: a worker is still listing "r" after it has put the
\* subdirectory "a" it discovered there.
C1_Witness ==
    \E w \in Workers :
        /\ current_dir[w] = "r"
        /\ wpc[w] = "entry"
        /\ idx[w] > 1
        /\ (DirQueued \/ \E v \in Workers : v # w /\ HoldsDir(v))

\* C2: a stop-sentinel is on the queue or has been taken by a worker only
\* after join() returned, and then no directory task is queued or in progress.
C2_SentinelAfterQuiescence ==
    (SentinelQueued \/ \E w \in Workers : wpc[w] \in {"sentinel", "exited"})
        => (JoinReturned /\ ~DirQueued /\ \A w \in Workers : ~HoldsDir(w))

\* C2 witness: a worker has just dequeued a sentinel after directories were scanned.
C2_Witness ==
    /\ \E w \in Workers : wpc[w] = "sentinel"
    /\ \E d \in Dirs : dequeued[d] > 0

\* C3: under fair scheduling the crawl terminates: join() returns, every
\* worker exits and start_scanning returns.
C3_CrawlTerminates ==
    <>(StartScanningReturned /\ \A w \in 1..num_threads : wpc[w] = "exited")

\* C3 witness: start_scanning has returned from a crawl of two workers that
\* listed all three directories of the tree.
C3_Witness ==
    /\ StartScanningReturned
    /\ num_threads = 2
    /\ \A w \in 1..num_threads : wpc[w] = "exited"
    /\ \A d \in Dirs : dequeued[d] > 0

\* ---------------------------------------------------------- tree vocabulary
Range(seq) == {seq[i] : i \in 1..Len(seq)}
SubDirs(d) == {e \in Range(Entries(d)) : IsDir(e)}
FilesIn(d) == {e \in Range(Entries(d)) : IsFile(e)}

RECURSIVE Descendants(_)
\* the directories below (and including) those of S, whatever their access
Descendants(S) ==
    LET T == S \cup UNION {SubDirs(d) : d \in S}
    IN  IF T = S THEN S ELSE Descendants(T)

RECURSIVE Reached(_)
\* the directories the crawl can come to: a denied directory has no children
Reached(S) ==
    LET T == S \cup UNION {SubDirs(d) : d \in S \ denied}
    IN  IF T = S THEN S ELSE Reached(T)

ReachedDirs == Reached(Range(root_paths))
AccessibleDirs == ReachedDirs \ denied
AccessibleFiles == UNION {FilesIn(d) : d \in AccessibleDirs} \ unreadable

\* no root is given twice and none lies below another
DisjointRoots ==
    \A i, j \in 1..Len(root_paths) :
        i # j => root_paths[j] \notin Descendants({root_paths[i]})

RECURSIVE SumOver(_, _)
SumOver(f, S) ==
    IF S = {} THEN 0
    ELSE LET x == CHOOSE y \in S : TRUE IN f[x] + SumOver(f, S \ {x})
TotalPushed == SumOver(pushed, Files)

\* C4 as stated (for every list of roots): no directory is dequeued twice, no
\* file pushed twice, and at the end every accessible directory was dequeued once.
C4_ExactlyOnce ==
    /\ \A d \in Dirs : dequeued[d] <= 1
    /\ \A f \in Files : pushed[f] <= 1
    /\ StartScanningReturned => \A d \in AccessibleDirs : dequeued[d] = 1

\* C4 amended: when no root is given twice and none lies below another, every
\* accessible directory reachable from a root is dequeued and listed exactly
\* once and every regular file yields at most one FileRecord.
C4_ExactlyOnceDisjointRoots == DisjointRoots => C4_ExactlyOnce

\* C4 witness: a finished crawl of the whole tree by two workers.
C4_Witness ==
    /\ StartScanningReturned
    /\ DisjointRoots
    /\ num_threads = 2
    /\ \A d \in Dirs : dequeued[d] = 1
    /\ \A f \in Files : pushed[f] = 1

\* C5 as stated: a run that ends with a connected writer and no failed batch
\* persisted F rows and reports D directories (F, D: the accessible files and
\* directories under the roots).
C5_TotalsMatchTree ==
    (mpc = "done" /\ wrpc = "exited" /\ failed_records = 0)
        => /\ Cardinality(rows) = Cardinality(AccessibleFiles)
           /\ total_directories_scanned = Cardinality(AccessibleDirs)

\* C6: when the writer ends normally and no batch failed, every pushed record
\* was committed, the trailing partial batch included, and none is left queued.
C6_NoLossFlush ==
    (wrpc = "exited" /\ failed_records = 0)
        => /\ file_data_queue = <<>>
           /\ \A f \in Files : committed[f] = pushed[f]
           /\ \A f \in Files : pushed[f] > 0 => \E row \in rows : row.filepath = f

\* C6 witness: the writer ended normally after a number of records that is
\* more than one batch and not a multiple of the batch threshold.
C6_Witness ==
    /\ wrpc = "exited"
    /\ failed_records = 0
    /\ TotalPushed > batch_size
    /\ TotalPushed % batch_size # 0

\* C7 as stated: after a second run over the unchanged tree the table has as
\* many rows as after the first run and every row holds the second run's metadata.
C7_SecondRunSameRows ==
    (run = 2 /\ mpc = "done")
        => /\ Cardinality(rows) = Cardinality(rows_before)
           /\ \A row \in rows : row.meta = run

\* C7 amended: the table never holds two rows with one filepath (an upsert of
\* an existing filepath overwrites the row), and when in both runs the writer
\* obtained its connection and no batch failed, the second run leaves the row
\* count of the first and every row holds the second run's metadata.
C7_Idempotent ==
    /\ \A r1, r2 \in rows : r1.filepath = r2.filepath => r1 = r2
    /\ (prior_clean /\ wrpc = "exited" /\ failed_records = 0) => C7_SecondRunSameRows

\* C7 witness: a second run without failures ended over a table of several rows.
C7_Witness ==
    /\ run = 2
    /\ mpc = "done"
    /\ prior_clean
    /\ wrpc = "exited"
    /\ failed_records = 0
    /\ Cardinality(rows) >= 2

\* the crawl as one worker performs it: directories in queue order
RECURSIVE Crawl(_, _, _, _)
Crawl(queue, nfiles, ndirs, recs) ==
    IF queue = <<>> THEN [files |-> nfiles, dirs |-> ndirs, records |-> recs]
    ELSE IF Head(queue) \in denied THEN Crawl(Tail(queue), nfiles, ndirs, recs)
    ELSE LET subs == SelectSeq(Entries(Head(queue)), IsDir)
             found == FilesIn(Head(queue)) \ unreadable
         IN  Crawl(Tail(queue) \o subs, nfiles + Cardinality(found),
                   ndirs + Len(subs), recs \cup found)
SingleWorker == Crawl(root_paths, 0, Len(root_paths), {})

TotalsOfSingleWorker ==
    /\ total_files_scanned = SingleWorker.files
    /\ total_directories_scanned = SingleWorker.dirs
    /\ (wrpc = "exited" /\ failed_records = 0)
          => {row.filepath : row \in rows} = SingleWorker.records

\* the one-worker crawl of the model ends with the totals Crawl computes
SingleWorkerAgrees == (num_threads = 1 /\ mpc = "done") => TotalsOfSingleWorker

\* C8 as stated: a crawl of more than one worker ends with the totals of the
\* single-worker crawl of the same tree.
C8_SameTotalsAsSingleWorker == (num_threads > 1 /\ mpc = "done") => TotalsOfSingleWorker

\* os.scandir is about to raise for the directory worker w dequeued
ListingFails(w) == wpc[w] = "scandir" /\ current_dir[w] \in denied
\* the crawl is over and only the accessible directories contributed
CrawlCompleted ==
    /\ StartScanningReturned
    /\ \A w \in 1..num_threads : wpc[w] = "exited"
    /\ \A d \in AccessibleDirs : dequeued[d] >= 1
    /\ \A f \in AccessibleFiles : pushed[f] >= 1
    /\ \A f \in Files \ AccessibleFiles : pushed[f] = 0
    /\ \A d \in Dirs \ ReachedDirs : dequeued[d] = 0

\* C9: when os.scandir raises for a directory the worker does not end (a
\* worker ends only on a sentinel, after join() returned), the crawl completes
\* with every accessible directory processed, and the failed directory
\* contributed no record and no subtask.
C9_ListingErrorIsSurvived ==
    /\ [](\A w \in Workers : wpc[w] = "exited" => JoinReturned)
    /\ (\E w \in Workers : ListingFails(w)) ~> CrawlCompleted

\* C9 witness: the crawl completed although the listing of "a" failed, and
\* the other directory "r" was processed.
C9_Witness ==
    /\ CrawlCompleted
    /\ denied = {"a"}
    /\ dequeued["a"] = 1
    /\ dequeued["r"] = 1
    /\ pushed["f2"] = 1

\* C10: the finished flag is set once, stays set, is set only when the Work
\* Queue is quiescent and every worker has exited, and no record is pushed
\* while it is set.
C10_FinishedFlag ==
    /\ [](flag_sets <= 1 /\ (is_indexing_finished <=> flag_sets = 1))
    /\ [](mpc = "done" => flag_sets = 1)
    /\ [](is_indexing_finished
            => /\ unfinished_tasks = 0
               /\ path_queue = <<>>
               /\ \A w \in 1..num_threads : wpc[w] = "exited")
    /\ [][is_indexing_finished => (is_indexing_finished' /\ pushed' = pushed)]_vars

\* C10 witness: the flag is set at the end of a crawl that pushed records.
C10_Witness ==
    /\ is_indexing_finished
    /\ flag_sets = 1
    /\ TotalPushed > 0

\* C11 as stated: no record is popped twice, and after the run has ended every
\* pushed record has been popped and none remains in the Record Queue.
C11_EveryRecordPopped ==
    /\ \A f \in Files : popped[f] + InBatch(file_data_queue, f) = pushed[f]
    /\ mpc = "done" => (file_data_queue = <<>> /\ popped = pushed)

\* C11 amended: every pushed record is either still in the Record Queue or
\* was popped exactly once, and when the writer thread has ended normally
\* every pushed record has been popped and none remains in the queue.
C11_PoppedExactlyOnce ==
    /\ \A f \in Files : popped[f] + InBatch(file_data_queue, f) = pushed[f]
    /\ wrpc = "exited" => (file_data_queue = <<>> /\ popped = pushed)

\* C11 witness: the writer ended normally after popping records that two
\* workers pushed, the same file twice among them.
C11_Witness ==
    /\ wrpc = "exited"
    /\ num_threads = 2
    /\ \E f \in Files : popped[f] = 2

\* C12: a failed batch persists nothing, is discarded and not retried, and the
\* writer keeps running: it goes on consuming and still exits normally, so a
\* writer that has ended after a failed batch has ended normally with the
\* Record Queue drained.
C12_WriterSurvivesFailedBatch ==
    /\ [][failed_records' # failed_records =>
            /\ rows' = rows
            /\ file_data_queue' = file_data_queue
            /\ wrpc' \in {"loop", "exited"}]_vars
    /\ []((WriterExited /\ failed_records > 0) =>
            (wrpc = "exited" /\ file_data_queue = <<>>))

\* C13: processed_count is the number of records in committed batches; it
\* grows only in a step that commits the batch, by the batch length, and a
\* failed batch leaves it unchanged.
C13_ProcessedCountIsCommitted ==
    /\ [](processed_count = SumOver(committed, Files))
    /\ [][/\ processed_count' # processed_count =>
                /\ processed_count' = processed_count + Len(batch_data)
                /\ rows' = UpsertAll(rows, batch_data)
                /\ failed_records' = failed_records
          /\ failed_records' # failed_records =>
                processed_count' = processed_count]_vars

\* C13 witness: the writer ended after one batch failed and another committed.
C13_Witness ==
    /\ wrpc = "exited"
    /\ failed_records > 0
    /\ processed_count > 0

\* C14: when the crawl has ended total_files_scanned is the number of records
\* pushed and total_directories_scanned the number of directory tasks put on
\* path_queue (all of them dequeued by then), for every interleaving.
C14_NoLostIncrement ==
    StartScanningReturned =>
        /\ total_files_scanned = TotalPushed
        /\ total_directories_scanned = SumOver(dequeued, Dirs)

\* the stop-sentinels on path_queue, and the workers that have taken one
SentinelsQueued == Cardinality({i \in 1..Len(path_queue) : path_queue[i] = None})
SentinelsTaken == Cardinality({w \in Workers : wpc[w] \in {"sentinel", "exited"}})

\* C15: the coordinator puts exactly num_threads sentinels after quiescence,
\* every sentinel put is on the queue or was taken by a worker that then
\* exits (so no worker takes two), none is left once start_scanning has
\* returned, and from the moment the sentinels are put every worker exits.
C15_OneSentinelPerWorker ==
    /\ [](mpc = "sentinels" => SentinelsQueued + SentinelsTaken = mi - 1)
    /\ []((JoinReturned /\ mpc # "sentinels") =>
            SentinelsQueued + SentinelsTaken = num_threads)
    /\ [](StartScanningReturned =>
            (path_queue = <<>> /\ \A w \in 1..num_threads : wpc[w] = "exited"))
    /\ (mpc = "sentinels") ~>
            (path_queue = <<>> /\ \A w \in 1..num_threads : wpc[w] = "exited")

\* C15 witness: two workers, one has taken its sentinel and exited, the
\* other sentinel is still queued.
C15_Witness ==
    /\ num_threads = 2
    /\ mpc = "shutdown"
    /\ SentinelsQueued = 1
    /\ \E w \in Workers : wpc[w] = "exited"

\* C16 as stated: whenever the writer thread has ended, the finished flag is
\* true and the Record Queue is empty.
C16_ExitedOnlyWhenDrained ==
    WriterExited => (is_indexing_finished /\ file_data_queue = <<>>)

\* C16 amended: the writer breaks out of its loop only with the finished flag
\* true and the Record Queue empty, and this still holds when it has ended
\* after the final flush; an empty queue with the flag false sends it back to
\* the loop.
C16_BreakOnlyWhenDrained ==
    /\ [](wrpc \in {"flush", "exited"} =>
            (is_indexing_finished /\ file_data_queue = <<>>))
    /\ [][(wrpc = "empty" /\ ~is_indexing_finished) =>
            wrpc' \in {"empty", "loop"}]_vars

\* C16 witness: the writer has broken out of its loop and ended normally
\* with records committed, while the main thread waits for it.
C16_Witness ==
    /\ wrpc = "exited"
    /\ processed_count > 0
    /\ mpc = "wait_writer"

\* C17: every dequeued directory task is marked complete exactly once on
\* every exit path: the unfinished-task count is the number of queued items
\* plus the tasks workers hold, a worker gives up a task only by one
\* task_done(), and after the finally clause it is back at get().
C17_TaskDoneOnEveryPath ==
    /\ [](unfinished_tasks = Len(path_queue)
            + Cardinality({w \in Workers : HoldsDir(w) \/ wpc[w] = "sentinel"}))
    /\ [][\A w \in Workers :
            /\ (HoldsDir(w) /\ wpc'[w] # wpc[w] /\ wpc[w] = "finally") =>
                    (unfinished_tasks' = unfinished_tasks - 1 /\ wpc'[w] = "dec_load")
            /\ (HoldsDir(w) /\ wpc[w] # "finally") =>
                    (wpc'[w] = wpc[w] \/ wpc'[w] \in
                        {"scandir", "entry", "ast_load", "ast_store", "tds_load",
                         "tds_store", "tfs_load", "tfs_store", "finally"})
            /\ (wpc[w] = "dec_store" /\ wpc'[w] # wpc[w]) => wpc'[w] = "get"]_vars

\* C17 witness: a worker has called task_done() for a directory whose
\* listing raised.
C17_Witness ==
    \E w \in Workers : wpc[w] = "dec_load" /\ current_dir[w] \in denied

\* C18: active_scan_tasks is positive whenever a directory task is queued or
\* held by a worker, and zero once all workers have exited.
C18_ActiveTracksOutstanding ==
    /\ (DirQueued \/ \E w \in Workers : HoldsDir(w)) => active_scan_tasks > 0
    /\ (\A w \in 1..num_threads : wpc[w] = "exited") => active_scan_tasks = 0

\* C19: a writer that obtained its connection drains the Record Queue,
\* flushes its last batch and exits, whether or not batches fail: when the run
\* has ended such a writer has ended normally and the queue is empty.
C19_ConnectedWriterDrains ==
    (mpc = "done" /\ wrpc # "no_connection") =>
        (wrpc = "exited" /\ file_data_queue = <<>> /\ popped = pushed)

\* C20: a writer without connection ends without popping a record or
\* touching the store, processed_count stays 0, every pushed record stays in
\* the Record Queue, and the crawl still completes: start_scanning returns,
\* the flag is set and wait_for_writer_thread returns.
C20_NoConnection ==
    /\ [](wrpc = "no_connection" =>
            /\ processed_count = 0
            /\ batch_data = <<>>
            /\ \A f \in Files : popped[f] = 0 /\ InBatch(file_data_queue, f) = pushed[f]
            /\ rows = rows_before)
    /\ (wrpc = "no_connection") ~>
            (/\ mpc = "done"
             /\ wrpc = "no_connection"
             /\ is_indexing_finished
             /\ \A w \in 1..num_threads : wpc[w] = "exited")

\* C20 witness: the run has ended, the writer had no connection, and pushed
\* records are still in the Record Queue.
C20_Witness ==
    /\ wrpc = "no_connection"
    /\ mpc = "done"
    /\ Len(file_data_queue) >= 2

\* C21: once path_queue.join() has returned no directory task is queued or
\* held by a worker, and every later change of path_queue is a get() or the
\* coordinator's put() of a stop-sentinel.
C21_NoSubmitAfterQuiescence ==
    /\ [](JoinReturned => (~DirQueued /\ \A w \in Workers : ~HoldsDir(w)))
    /\ [][JoinReturned =>
            \/ path_queue' = path_queue
            \/ (path_queue # <<>> /\ path_queue' = Tail(path_queue))
            \/ (mpc = "sentinels" /\ path_queue' = Append(path_queue, None))]_vars

\* C21 witness: join() has returned after workers submitted subdirectories,
\* and a sentinel has been put.
C21_Witness ==
    /\ root_paths = <<"r">>
    /\ dequeued["a"] = 1
    /\ dequeued["b"] = 1
    /\ mpc = "sentinels"
    /\ SentinelsQueued = 1

\* the writer's local batch list, which exists while the thread runs
InMemoryBatch == IF WriterExited THEN <<>> ELSE batch_data

\* C23: every transaction holds between 1 and batch_size records: the batch
\* is submitted exactly when it reaches batch_size, it is empty whenever the
\* writer goes on after a submission, failed or not, and only the final flush
\* submits fewer than batch_size records.
C23_BatchSize ==
    /\ [](wrpc = "execute" => Len(batch_data) = batch_size)
    /\ [](wrpc \in {"loop", "empty", "flush"} => Len(batch_data) < batch_size)
    /\ [][(committed' # committed \/ failed_records' # failed_records) =>
            /\ Len(batch_data) >= 1
            /\ Len(batch_data) <= batch_size
            /\ Len(batch_data) < batch_size => wrpc = "flush"]_vars
    /\ [][(wrpc = "execute" /\ wrpc' = "loop") => batch_data' = <<>>]_vars

\* C23 witness: the writer goes on with an empty batch after a full batch
\* failed.
C23_Witness ==
    /\ wrpc = "loop"
    /\ batch_data = <<>>
    /\ failed_records = batch_size
    /\ processed_count = 0

\* C24: every pushed record is in the Record Queue, in the writer's batch,
\* committed, or discarded with a failed batch, and in one of them only;
\* when the writer has exited normally processed_count plus the records of
\* failed batches is the number of records pushed.
C24_RecordConservation ==
    /\ TotalPushed = Len(file_data_queue) + Len(InMemoryBatch)
                        + SumOver(committed, Files) + failed_records
    /\ \A f \in Files :
        /\ pushed[f] = InBatch(file_data_queue, f) + popped[f]
        /\ popped[f] >= InBatch(InMemoryBatch, f) + committed[f]
    /\ wrpc = "exited" => processed_count + failed_records = TotalPushed

\* C24 witness: the writer has exited normally with one batch committed and
\* one discarded.
C24_Witness ==
    /\ wrpc = "exited"
    /\ processed_count = batch_size
    /\ failed_records = 1
    /\ TotalPushed = batch_size + 1

\* C25: the unfinished-task count of path_queue is never negative, and once
\* start_scanning has returned it is zero and path_queue is empty.
C25_UnfinishedNeverNegative ==
    /\ unfinished_tasks >= 0
    /\ StartScanningReturned => (unfinished_tasks = 0 /\ path_queue = <<>>)

\* C25 witness: start_scanning has returned after two workers took their
\* sentinels and a directory whose listing raised was marked done.
C25_Witness ==
    /\ mpc = "wait_writer"
    /\ num_threads = 2
    /\ denied = {"b"}
    /\ dequeued["b"] = 1
    /\ unfinished_tasks = 0

\* C22: the final counts are reported once per run and only after the writer
\* thread has ended; the events of a run come in the order quiescence, all
\* workers exited, finished flag set, writer thread ended, report.
C22_ReportOnceAfterWriter ==
    /\ [](is_indexing_finished =>
            (JoinReturned /\ \A w \in 1..num_threads : wpc[w] = "exited"))
    /\ [](mpc \in {"report", "done"} => (WriterExited /\ is_indexing_finished))
    /\ [][reports' # reports =>
            (reports = <<>> /\ WriterExited /\ is_indexing_finished)]_vars
    /\ [](mpc = "done" => Len(reports) = 1)

====
